---- MODULE Spec2Model ----
(***************************************************************************)
(* Model of the fox-operator reconciliation engine: the action decider,    *)
(* the finalizer manager, the workload translator and the finalizer-guarded *)
(* create/delete orchestration of `reconcile`, run against a model of the  *)
(* cluster API (FoxService objects and Deployments) and of the controller  *)
(* runtime (watch cache, per-identity serialized dispatch, crashes).        *)
(***************************************************************************)
EXTENDS Integers, Sequences, FiniteSets, TLC

VARIABLES
    objs,         \* cluster API: FoxService object stored under each metadata name
    created,      \* cluster API: how many objects were ever created under each name (uid source)
    deployments,  \* cluster API: Deployment stored under each name of the namespace
    cache,        \* controller runtime: the watch cache's (possibly stale) copy of each object
    pc,           \* position of the reconcile invocation of each identity
    snap,         \* the `fox_svc` argument of the invocation in flight
    action,       \* what determine_action returned in the current/last invocation
    calls,        \* control-plane calls issued by the current/last invocation, in order
    result,       \* what the current/last invocation returned (and the requeue the runtime got)
    input,        \* argument of the pure function under test (pure-function specifications)
    output        \* its result

vars == <<objs, created, deployments, cache, pc, snap, action, calls, result, input, output>>

clusterVars == <<objs, created, deployments>>
fnVars == <<input, output>>

(***************************************************************************)
(* Bounds of the model.                                                    *)
(***************************************************************************)
\* FoxService objects external actors create in one run, over all names (an object
\* removed from the cluster may be created again under the same name)
MaxCreates == 2
\* longest finalizer list handed to the pure functions
MaxFinLen == 2

(***************************************************************************)
(* Program constants.                                                      *)
(***************************************************************************)
FINALIZER == "foxservices.cbopt.com"
RequeueOk == 10
RequeueNoOp == 10
RequeueOnError == 5
ImagePullPolicy == "ALways"

\* metadata names of the FoxService objects, which are also the Deployment names in use
Names == {"a", "b"}
DefaultNamespace == "default"
\* a finalizer token owned by somebody else
OtherToken == "other.example.com"

(***************************************************************************)
(* Option<T>.                                                              *)
(***************************************************************************)
NoneSeq == [some |-> FALSE, v |-> <<>>]
SomeSeq(s) == [some |-> TRUE, v |-> s]
NoneStr == [some |-> FALSE, v |-> ""]
SomeStr(s) == [some |-> TRUE, v |-> s]
NoneInt == [some |-> FALSE, v |-> 0]
SomeInt(n) == [some |-> TRUE, v |-> n]

(***************************************************************************)
(* Resource model.                                                         *)
(***************************************************************************)
ContainerSpec(name, image) ==
    [name |-> name, image |-> image, args |-> NoneSeq, env |-> NoneSeq, ports |-> NoneSeq]

\* the FoxServiceSpec values external actors declare in the model; `name` is a field of
\* the spec, independent of the object's metadata name
FoxServiceSpecs ==
    { [name |-> "a", replicas |-> 3,
       containers |-> <<ContainerSpec("web", "echo:latest")>>, http_ingress |-> NoneSeq],
      [name |-> "b", replicas |-> 0,
       containers |-> <<ContainerSpec("web", "echo:latest"), ContainerSpec("db", "pg:1")>>,
       http_ingress |-> NoneSeq] }

DefaultSpec == CHOOSE s \in FoxServiceSpecs : s.name = "a"

FoxService(name, uid, namespace, finalizers, deletion_timestamp, spec) ==
    [exists |-> TRUE,
     meta |-> [name |-> name, uid |-> uid, namespace |-> namespace,
               finalizers |-> finalizers, deletion_timestamp |-> deletion_timestamp],
     spec |-> spec]

\* no object stored under `name`
Absent(name) ==
    [exists |-> FALSE,
     meta |-> [name |-> name, uid |-> 0, namespace |-> NoneStr,
               finalizers |-> NoneSeq, deletion_timestamp |-> NoneInt],
     spec |-> DefaultSpec]

(***************************************************************************)
(* Translator: the workload descriptor (fox_service/deployment.rs).        *)
(***************************************************************************)
\* mutant: the key of a ports entry becomes the container port, the value the host port
ContainerPort_swapped(p) == [container_port |-> p[1], host_port |-> SomeInt(p[2])]

\* one (host, container) entry of the ports mapping
ContainerPort(p) == [container_port |-> p[2], host_port |-> SomeInt(p[1])]

\* one (key, value) entry of the env mapping
EnvVar(e) == [name |-> e[1], value |-> SomeStr(e[2])]

\* container.ports.as_ref().map(|ports| ports.iter().map(..).collect())
ContainerPorts(ports) ==
    IF ports.some THEN SomeSeq([i \in 1..Len(ports.v) |-> ContainerPort(ports.v[i])])
    ELSE NoneSeq

\* container.env.as_ref().map(|env| env.iter().map(..).collect())
EnvVars(env) ==
    IF env.some THEN SomeSeq([i \in 1..Len(env.v) |-> EnvVar(env.v[i])])
    ELSE NoneSeq

Container(container) ==
    [name |-> container.name,
     image |-> SomeStr(container.image),
     image_pull_policy |-> SomeStr(ImagePullPolicy),
     args |-> container.args,
     env |-> EnvVars(container.env),
     ports |-> ContainerPorts(container.ports)]

build_deployment(fs, namespace) ==
    [name |-> SomeStr(fs.name),
     namespace |-> SomeStr(namespace),
     replicas |-> SomeInt(fs.replicas),
     containers |-> [i \in 1..Len(fs.containers) |-> Container(fs.containers[i])]]

(***************************************************************************)
(* Translator: the exposure descriptor (fox_service/service.rs).           *)
(***************************************************************************)
\* mutant: the target port is left for the API server to default
ServicePort_no_target(ingress) ==
    [port |-> ingress.port, protocol |-> NoneStr, target_port |-> NoneInt]

\* one entry of http_ingress; target_port is IntOrString::Int(ingress.port)
ServicePort(ingress) ==
    [port |-> ingress.port, protocol |-> NoneStr, target_port |-> SomeInt(ingress.port)]

build_service(fs, namespace) ==
    [name |-> SomeStr(fs.name),
     namespace |-> SomeStr(namespace),
     ports |-> IF fs.http_ingress.some
               THEN SomeSeq([i \in 1..Len(fs.http_ingress.v) |->
                                ServicePort(fs.http_ingress.v[i])])
               ELSE NoneSeq,
     selector |-> NoneSeq]

NoDeployment ==
    [exists |-> FALSE, owner |-> <<"", 0>>,
     body |-> [name |-> NoneStr, namespace |-> NoneStr, replicas |-> NoneInt,
               containers |-> <<>>]]

(***************************************************************************)
(* Cluster API, as the calls of this program use it.  `fault` is what the  *)
(* transport does to one call: "ok" (delivered and answered), "err" (the   *)
(* call fails without effect), "lost" (the call takes effect, the caller   *)
(* gets an error).  A call the API server rejects fails without effect.    *)
(***************************************************************************)
Faults == {"ok", "err", "lost"}

\* the API server physically removes an object once it is marked for deletion and
\* carries no finalizer
Finalize(obj) ==
    IF obj.meta.deletion_timestamp.some
       /\ (~obj.meta.finalizers.some \/ obj.meta.finalizers.v = <<>>)
    THEN Absent(obj.meta.name)
    ELSE obj

\* Api::<FoxService>::namespaced(ns).patch(name, Patch::Merge({metadata: {finalizers: f}}))
api_patch_finalizers(store, name, namespace, finalizers, fault) ==
    IF fault = "err" \/ ~store[name].exists \/ store[name].meta.namespace # SomeStr(namespace)
    THEN [ok |-> FALSE, store |-> store]
    ELSE [ok |-> fault = "ok",
          store |-> [store EXCEPT
                       ![name] = Finalize([@ EXCEPT !.meta.finalizers = finalizers])]]

\* Api::<Deployment>::namespaced(ns).create(deployment); `owner` records on whose
\* behalf the object was created
api_create(deps, deployment, owner, fault) ==
    IF fault = "err" \/ deps[deployment.name.v].exists
    THEN [ok |-> FALSE, store |-> deps]
    ELSE [ok |-> fault = "ok",
          store |-> [deps EXCEPT ![deployment.name.v] =
                        [exists |-> TRUE, owner |-> owner, body |-> deployment]]]

\* Api::<Deployment>::namespaced(ns).delete(name)
api_delete(deps, name, fault) ==
    IF fault = "err" \/ ~deps[name].exists
    THEN [ok |-> FALSE, store |-> deps]
    ELSE [ok |-> fault = "ok", store |-> [deps EXCEPT ![name] = NoDeployment]]

(***************************************************************************)
(* Finalizer manager (finalizer.rs).                                       *)
(***************************************************************************)
\* mutant: `add` patches an empty list
finalizer_add_patch_empty == SomeSeq(<<>>)

\* mutant: `delete` patches the sentinel list, as `add` does
finalizer_delete_patch_sentinel == SomeSeq(<<FINALIZER>>)

\* the value the merge patch of `add` puts in metadata.finalizers
finalizer_add_patch == SomeSeq(<<FINALIZER>>)

\* the value the merge patch of `delete` puts there: null removes the field
finalizer_delete_patch == NoneSeq

\* mutant: `add` appends the sentinel to the list the object already has
finalizer_add_append(store, name, namespace, fault) ==
    api_patch_finalizers(store, name, namespace,
                         SomeSeq(Append(store[name].meta.finalizers.v, FINALIZER)), fault)

\* mutant: `delete` takes out the sentinel and keeps the other tokens
finalizer_delete_own_only(store, name, namespace, fault) ==
    api_patch_finalizers(store, name, namespace,
                         SomeSeq(SelectSeq(store[name].meta.finalizers.v,
                                           LAMBDA t : t # FINALIZER)), fault)

finalizer_add(store, name, namespace, fault) ==
    api_patch_finalizers(store, name, namespace, finalizer_add_patch, fault)

finalizer_delete(store, name, namespace, fault) ==
    api_patch_finalizers(store, name, namespace, finalizer_delete_patch, fault)

(***************************************************************************)
(* Workload calls (fox_service/deployment.rs) and the fox_service module's *)
(* entry points used by reconcile.                                         *)
(***************************************************************************)
\* mutant: an existing Deployment of that name is replaced by the new one
create_deployment_replace(deps, fs, namespace, owner, fault) ==
    IF fault = "err" THEN [ok |-> FALSE, store |-> deps]
    ELSE api_create([deps EXCEPT ![fs.name] = NoDeployment],
                    build_deployment(fs, namespace), owner, fault)

create_deployment(deps, fs, namespace, owner, fault) ==
    api_create(deps, build_deployment(fs, namespace), owner, fault)

delete_deployment(deps, name, namespace, fault) ==
    api_delete(deps, name, fault)

\* fox_service::deploy(&spec, client, &name, replicas, &namespace)
deploy(deps, fs, name, replicas, namespace, owner, fault) ==
    create_deployment(deps, fs, namespace, owner, fault)

\* fox_service::delete(client, &name, &namespace)
delete(deps, name, namespace, fault) ==
    delete_deployment(deps, name, namespace, fault)

(***************************************************************************)
(* Action decider and error handler (main.rs).                             *)
(***************************************************************************)
Actions == {"Create", "Delete", "NoOp"}

\* enum Error
Errors == {"KubeError", "UserInputError"}

\* mutant: the finalizers are looked at before the deletion marker
determine_action_finalizers_first(fox_svc) ==
    IF ~fox_svc.meta.finalizers.some THEN "Create"
    ELSE IF fox_svc.meta.deletion_timestamp.some THEN "Delete"
    ELSE "NoOp"

\* mutant: only this controller's own token counts as "provisioned"
determine_action_own_token_only(fox_svc) ==
    IF fox_svc.meta.deletion_timestamp.some THEN "Delete"
    ELSE IF ~fox_svc.meta.finalizers.some
            \/ fox_svc.meta.finalizers.v # <<FINALIZER>> THEN "Create"
    ELSE "NoOp"

\* mutant: every object not marked for deletion is provisioned again
determine_action_retry_create(fox_svc) ==
    IF fox_svc.meta.deletion_timestamp.some THEN "Delete" ELSE "Create"

determine_action(fox_svc) ==
    IF fox_svc.meta.deletion_timestamp.some THEN "Delete"
    ELSE IF ~fox_svc.meta.finalizers.some THEN "Create"
    ELSE "NoOp"

\* mutant: a UserInputError is treated as final and not requeued
on_error_user_input_final(error) ==
    [requeue_after |-> IF error = "UserInputError" THEN NoneInt ELSE SomeInt(RequeueOnError)]

on_error(error) == [requeue_after |-> SomeInt(RequeueOnError)]

\* Ok(ReconcilerAction { requeue_after })
Ok(requeue_after) == [kind |-> "Ok", requeue_after |-> requeue_after]
\* Err(error): the runtime hands it to on_error and schedules what that returns
Err(error) == [kind |-> error, requeue_after |-> on_error(error).requeue_after]
NoResult == [kind |-> "none", requeue_after |-> NoneInt]
Crashed == [kind |-> "crashed", requeue_after |-> NoneInt]

\* a control-plane call as the invocation saw it
Call(op, target, ok) == [op |-> op, target |-> target, ok |-> ok]

(***************************************************************************)
(* Initial state: an empty cluster, a controller with nothing in flight.   *)
(***************************************************************************)
\* the argument the pure-function variables hold while the controller runs
NoInput == Absent("a")

Init ==
    /\ objs = [n \in Names |-> Absent(n)]
    /\ created = [n \in Names |-> 0]
    /\ deployments = [n \in Names |-> NoDeployment]
    /\ cache = [n \in Names |-> Absent(n)]
    /\ pc = [n \in Names |-> "idle"]
    /\ snap = [n \in Names |-> Absent(n)]
    /\ action = [n \in Names |-> "none"]
    /\ calls = [n \in Names |-> <<>>]
    /\ result = [n \in Names |-> NoResult]
    /\ input = NoInput
    /\ output = "none"

(***************************************************************************)
(* External actors and the controller runtime.                             *)
(***************************************************************************)
RECURSIVE Sum(_, _)
Sum(f, S) == IF S = {} THEN 0 ELSE LET x == CHOOSE x \in S : TRUE IN f[x] + Sum(f, S \ {x})

TotalCreated == Sum(created, Names)

\* what external actors declare: a namespaced object with either spec, with or without
\* a finalizer of their own, and an object that carries no namespace
Declarations ==
    [namespace : {SomeStr(DefaultNamespace)},
     finalizers : {NoneSeq, SomeSeq(<<OtherToken>>)},
     spec : FoxServiceSpecs]
    \cup [namespace : {NoneStr}, finalizers : {NoneSeq}, spec : {DefaultSpec}]

\* an external actor creates a FoxService object under a free name
ExternalCreate(n) ==
    /\ ~objs[n].exists
    /\ TotalCreated < MaxCreates
    /\ \E d \in Declarations :
          objs' = [objs EXCEPT ![n] =
                      FoxService(n, created[n] + 1, d.namespace, d.finalizers, NoneInt, d.spec)]
    /\ created' = [created EXCEPT ![n] = @ + 1]
    /\ UNCHANGED <<deployments, cache, pc, snap, action, calls, result, fnVars>>

\* an external actor requests deletion: the API server sets the deletion marker, and
\* removes the object at once when no finalizer blocks it
ExternalDelete(n) ==
    /\ objs[n].exists
    /\ ~objs[n].meta.deletion_timestamp.some
    /\ objs' = [objs EXCEPT ![n] = Finalize([@ EXCEPT !.meta.deletion_timestamp = SomeInt(1)])]
    /\ UNCHANGED <<created, deployments, cache, pc, snap, action, calls, result, fnVars>>

\* the runtime's watch delivers the current version of one object to its cache
Watch(n) ==
    /\ cache[n] # objs[n]
    /\ cache' = [cache EXCEPT ![n] = objs[n]]
    /\ UNCHANGED <<clusterVars, pc, snap, action, calls, result, fnVars>>

\* the controller process dies between two steps of some invocation and restarts with
\* an empty cache
Crash ==
    /\ \E n \in Names : pc[n] # "idle"
    /\ pc' = [n \in Names |-> "idle"]
    /\ result' = [n \in Names |-> IF pc[n] # "idle" THEN Crashed ELSE result[n]]
    /\ cache' = [n \in Names |-> Absent(n)]
    /\ snap' = [n \in Names |-> Absent(n)]
    /\ UNCHANGED <<clusterVars, action, calls, fnVars>>

(***************************************************************************)
(* reconcile (main.rs), one action per stretch between suspension points.  *)
(***************************************************************************)
\* mutant: the NoOp arm falls through to the Create arm
FirstStep_fallthrough(act) ==
    CASE act = "Create" -> "add"
      [] act = "Delete" -> "delete"
      [] act = "NoOp" -> "add"

\* where the invocation stands once determine_action has returned
FirstStep(act) ==
    CASE act = "Create" -> "add"
      [] act = "Delete" -> "delete"
      [] act = "NoOp" -> "idle"

\* mutant: the result of finalizer::add is dropped instead of propagated with `?`
AfterAdd_ignore_error(ok) == "deploy"

\* `finalizer::add(..).await?`: go on to deploy only when the call returned Ok
AfterAdd(ok) == IF ok THEN "deploy" ELSE "idle"

\* mutant: the result of fox_service::delete is dropped instead of propagated with `?`
AfterDelete_ignore_error(ok) == "clear"

\* `fox_service::delete(..).await?`: go on to finalizer::delete only when it returned Ok
AfterDelete(ok) == IF ok THEN "clear" ELSE "idle"

\* what the Create arm returns after both calls
CreateResult(ok) == IF ok THEN Ok(SomeInt(RequeueOk)) ELSE Err("KubeError")

\* what the Delete arm returns after both calls
DeleteResult(ok) == IF ok THEN Ok(NoneInt) ELSE Err("KubeError")

\* what the NoOp arm returns
NoOpResult == Ok(SomeInt(RequeueNoOp))

\* mutant: a resource without a namespace is reconciled all the same
namespaced_always(fox_svc) == TRUE

\* `match fox_svc.namespace()`: Some(namespace) goes on, None returns UserInputError
namespaced(fox_svc) == fox_svc.meta.namespace.some

\* the runtime dispatches reconcile(fox_svc) with the cached copy; the invocation runs
\* to its first control-plane call or to its return
Dispatch(n) ==
    /\ pc[n] = "idle"
    /\ cache[n].exists
    /\ calls' = [calls EXCEPT ![n] = <<>>]
    /\ IF ~namespaced(cache[n])
       THEN /\ action' = [action EXCEPT ![n] = "none"]
            /\ pc' = [pc EXCEPT ![n] = "idle"]
            /\ snap' = snap
            /\ result' = [result EXCEPT ![n] = Err("UserInputError")]
       ELSE /\ action' = [action EXCEPT ![n] = determine_action(cache[n])]
            /\ pc' = [pc EXCEPT ![n] = FirstStep(determine_action(cache[n]))]
            /\ snap' = [snap EXCEPT ![n] =
                           IF FirstStep(determine_action(cache[n])) = "idle"
                           THEN Absent(n) ELSE cache[n]]
            /\ result' = [result EXCEPT ![n] =
                             IF determine_action(cache[n]) = "NoOp" THEN NoOpResult ELSE NoResult]
    /\ UNCHANGED <<clusterVars, cache, fnVars>>

\* Create arm: finalizer::add(client, &name, &namespace).await?
AddFinalizerF(n, fault) ==
    /\ pc[n] = "add"
    /\ LET r == finalizer_add(objs, snap[n].meta.name, snap[n].meta.namespace.v, fault) IN
       /\ objs' = r.store
       /\ calls' = [calls EXCEPT ![n] = Append(@, Call("finalizer_add", snap[n].meta.name, r.ok))]
       /\ pc' = [pc EXCEPT ![n] = AfterAdd(r.ok)]
       /\ snap' = [snap EXCEPT ![n] = IF AfterAdd(r.ok) = "idle" THEN Absent(n) ELSE @]
       /\ result' = [result EXCEPT ![n] =
                        IF AfterAdd(r.ok) = "idle" THEN Err("KubeError") ELSE NoResult]
    /\ UNCHANGED <<created, deployments, cache, action, fnVars>>

\* the object a workload is created for: the one stored under the reconciled identity
\* when the create call is made
Owner(name) == <<name, objs[name].meta.uid>>

\* Create arm: fox_service::deploy(..).await?, then Ok(requeue_after 10)
DeployF(n, fault) ==
    /\ pc[n] = "deploy"
    /\ LET r == deploy(deployments, snap[n].spec, snap[n].meta.name, snap[n].spec.replicas,
                       snap[n].meta.namespace.v, Owner(snap[n].meta.name), fault) IN
       /\ deployments' = r.store
       /\ calls' = [calls EXCEPT ![n] = Append(@, Call("create", snap[n].spec.name, r.ok))]
       /\ result' = [result EXCEPT ![n] = CreateResult(r.ok)]
    /\ pc' = [pc EXCEPT ![n] = "idle"]
    /\ snap' = [snap EXCEPT ![n] = Absent(n)]
    /\ UNCHANGED <<objs, created, cache, action, fnVars>>

\* Delete arm: fox_service::delete(client, &name, &namespace).await?
DeleteWorkloadF(n, fault) ==
    /\ pc[n] = "delete"
    /\ LET r == delete(deployments, snap[n].meta.name, snap[n].meta.namespace.v, fault) IN
       /\ deployments' = r.store
       /\ calls' = [calls EXCEPT ![n] = Append(@, Call("delete", snap[n].meta.name, r.ok))]
       /\ pc' = [pc EXCEPT ![n] = AfterDelete(r.ok)]
       /\ snap' = [snap EXCEPT ![n] = IF AfterDelete(r.ok) = "idle" THEN Absent(n) ELSE @]
       /\ result' = [result EXCEPT ![n] =
                        IF AfterDelete(r.ok) = "idle" THEN Err("KubeError") ELSE NoResult]
    /\ UNCHANGED <<objs, created, cache, action, fnVars>>

\* Delete arm: finalizer::delete(client, &name, &namespace).await?, then Ok(requeue_after None)
ClearFinalizerF(n, fault) ==
    /\ pc[n] = "clear"
    /\ LET r == finalizer_delete(objs, snap[n].meta.name, snap[n].meta.namespace.v, fault) IN
       /\ objs' = r.store
       /\ calls' = [calls EXCEPT ![n] =
                       Append(@, Call("finalizer_delete", snap[n].meta.name, r.ok))]
       /\ result' = [result EXCEPT ![n] = DeleteResult(r.ok)]
    /\ pc' = [pc EXCEPT ![n] = "idle"]
    /\ snap' = [snap EXCEPT ![n] = Absent(n)]
    /\ UNCHANGED <<created, deployments, cache, action, fnVars>>

AddFinalizer(n) == \E fault \in Faults : AddFinalizerF(n, fault)
Deploy(n) == \E fault \in Faults : DeployF(n, fault)
DeleteWorkload(n) == \E fault \in Faults : DeleteWorkloadF(n, fault)
ClearFinalizer(n) == \E fault \in Faults : ClearFinalizerF(n, fault)

Next ==
    \/ \E n \in Names : ExternalCreate(n)
    \/ \E n \in Names : ExternalDelete(n)
    \/ \E n \in Names : Watch(n)
    \/ Crash
    \/ \E n \in Names : Dispatch(n)
    \/ \E n \in Names : AddFinalizer(n)
    \/ \E n \in Names : Deploy(n)
    \/ \E n \in Names : DeleteWorkload(n)
    \/ \E n \in Names : ClearFinalizer(n)

Spec == Init /\ [][Next]_vars

\* The runtime keeps watching and re-dispatching every object, and no control-plane
\* call fails for ever: a call that is attempted again and again is eventually
\* delivered and answered.
Fairness ==
    \A n \in Names :
        /\ SF_vars(Watch(n))
        /\ SF_vars(Dispatch(n))
        /\ SF_vars(AddFinalizerF(n, "ok"))
        /\ SF_vars(DeployF(n, "ok"))
        /\ SF_vars(DeleteWorkloadF(n, "ok"))
        /\ SF_vars(ClearFinalizerF(n, "ok"))

FairSpec == Init /\ [][Next]_vars /\ Fairness

(***************************************************************************)
(* determine_action as a pure function: every FoxService value its         *)
(* argument type admits, within the bounds, is decided once.               *)
(***************************************************************************)
RECURSIVE SeqsUpTo(_, _)
SeqsUpTo(S, k) ==
    IF k = 0 THEN {<<>>}
    ELSE LET shorter == SeqsUpTo(S, k - 1) IN
         shorter \cup {Append(q, x) : q \in shorter, x \in S}

\* Option<Vec<String>>: absent, or a list of at most MaxFinLen tokens (possibly empty)
FinalizerFields == {NoneSeq} \cup {SomeSeq(q) : q \in SeqsUpTo({FINALIZER, OtherToken}, MaxFinLen)}

DecideInputs ==
    {FoxService(n, 1, namespace, finalizers, deletion_timestamp, DefaultSpec) :
        n \in Names,
        namespace \in {NoneStr, SomeStr(DefaultNamespace)},
        finalizers \in FinalizerFields,
        deletion_timestamp \in {NoneInt, SomeInt(1), SomeInt(2)}}

InitDecide ==
    /\ objs = [n \in Names |-> Absent(n)]
    /\ created = [n \in Names |-> 0]
    /\ deployments = [n \in Names |-> NoDeployment]
    /\ cache = [n \in Names |-> Absent(n)]
    /\ pc = [n \in Names |-> "idle"]
    /\ snap = [n \in Names |-> Absent(n)]
    /\ action = [n \in Names |-> "none"]
    /\ calls = [n \in Names |-> <<>>]
    /\ result = [n \in Names |-> NoResult]
    /\ input \in DecideInputs
    /\ output = "none"

Decide ==
    /\ output = "none"
    /\ output' = determine_action(input)
    /\ UNCHANGED <<clusterVars, cache, pc, snap, action, calls, result, input>>

NextDecide == Decide

SpecDecide == InitDecide /\ [][NextDecide]_vars

(***************************************************************************)
(* Properties.                                                             *)
(***************************************************************************)
Last(q) == q[Len(q)]

IsEmptyField(finalizers) == ~finalizers.some \/ finalizers.v = <<>>

\* C1: a FoxService object is never removed from the cluster while the workload the
\* controller created for it still exists: every Deployment's owner is still stored.
C1_OwnerOutlivesWorkload ==
    \A d \in Names :
        deployments[d].exists =>
            /\ objs[deployments[d].owner[1]].exists
            /\ objs[deployments[d].owner[1]].meta.uid = deployments[d].owner[2]

\* C2: determine_action returns Delete whenever the deletion marker is set, whatever
\* the finalizers field holds.
C2_DeletionMarkerWins ==
    (output # "none" /\ input.meta.deletion_timestamp.some) => output = "Delete"

C2_Witness ==
    /\ output = "Delete"
    /\ input.meta.deletion_timestamp.some
    /\ input.meta.finalizers = SomeSeq(<<FINALIZER>>)

\* C3: determine_action returns Create whenever the deletion marker is unset and the
\* finalizer set holds no token, be the field absent or present with zero elements.
C3_EmptyFinalizersCreate ==
    (/\ output # "none"
     /\ ~input.meta.deletion_timestamp.some
     /\ IsEmptyField(input.meta.finalizers)) => output = "Create"

\* C4: determine_action returns NoOp whenever the deletion marker is unset and the
\* finalizer set holds a token, and it returns nothing but Create, Delete and NoOp.
C4_FinalizersNoOp ==
    output # "none" =>
        /\ output \in Actions
        /\ (/\ ~input.meta.deletion_timestamp.some
            /\ ~IsEmptyField(input.meta.finalizers)) => output = "NoOp"

C4_Witness ==
    /\ output = "NoOp"
    /\ ~input.meta.deletion_timestamp.some
    /\ input.meta.finalizers = SomeSeq(<<OtherToken, FINALIZER>>)

\* the invocation of n made a call in this step, and the call returned `ok`
Returned(n, op, ok) ==
    /\ calls'[n] # calls[n]
    /\ calls'[n] # <<>>
    /\ Last(calls'[n]).op = op
    /\ Last(calls'[n]).ok = ok

Namespaced(fox_svc) == fox_svc.exists /\ fox_svc.meta.namespace.some

\* C5: on the Create path the workload create call is issued only after the finalizer
\* add call of the same invocation returned Ok; when the add call fails the invocation
\* returns an error without issuing the create call.
C5_CreateAfterFinalizer ==
    \A n \in Names :
        /\ pc[n] = "deploy" => calls[n] = <<Call("finalizer_add", n, TRUE)>>
        /\ \A i \in 1..Len(calls[n]) :
              calls[n][i].op = "create" =>
                  i = 2 /\ calls[n][1] = Call("finalizer_add", n, TRUE)
        /\ (calls[n] # <<>> /\ calls[n][1] = Call("finalizer_add", n, FALSE)) =>
              /\ Len(calls[n]) = 1
              /\ pc[n] = "idle"
              /\ result[n].kind = "KubeError"

\* one invocation stopped at its failed add call, another went on to the create call
C5_Witness ==
    \E n, m \in Names :
        /\ calls[n] = <<Call("finalizer_add", n, FALSE)>>
        /\ result[n].kind = "KubeError"
        /\ Len(calls[m]) = 2
        /\ calls[m][2].op = "create"

C6_Log ==
    \A n \in Names :
        /\ pc[n] = "clear" => calls[n] = <<Call("delete", n, TRUE)>>
        /\ \A i \in 1..Len(calls[n]) :
              calls[n][i].op = "finalizer_delete" =>
                  i = 2 /\ calls[n][1] = Call("delete", n, TRUE)
        /\ (/\ calls[n] # <<>>
            /\ calls[n][1] = Call("delete", n, TRUE)
            /\ pc[n] = "idle"
            /\ result[n] # Crashed) =>
              Len(calls[n]) = 2 /\ calls[n][2].op = "finalizer_delete"
        /\ (calls[n] # <<>> /\ calls[n][1] = Call("delete", n, FALSE)) =>
              /\ Len(calls[n]) = 1
              /\ pc[n] = "idle"
              /\ result[n].kind = "KubeError"

C6_Frame ==
    \A n \in Names :
        (pc[n] = "delete" /\ Returned(n, "delete", FALSE)) =>
            /\ objs' = objs
            /\ pc'[n] = "idle"
            /\ result'[n] = Err("KubeError")

\* C6: on the Delete path the finalizer clear call is issued if and only if the workload
\* delete call of the same invocation returned Ok; when the delete call fails (not-found
\* included) the invocation ends with a control-plane error and leaves the finalizers
\* of the object as they were.
C6_ClearOnlyAfterDelete == []C6_Log /\ [][C6_Frame]_vars

\* the not-found case: the object is marked for deletion and holds the sentinel, no
\* Deployment of its name exists, and the invocation ended at its failed delete call
C6_Witness ==
    \E n \in Names :
        /\ calls[n] = <<Call("delete", n, FALSE)>>
        /\ pc[n] = "idle"
        /\ result[n] = Err("KubeError")
        /\ ~deployments[n].exists
        /\ objs[n].exists
        /\ objs[n].meta.deletion_timestamp.some
        /\ objs[n].meta.finalizers = SomeSeq(<<FINALIZER>>)

\* every declared spec.name is the metadata name of its object, so that the Deployment
\* the Create path creates is the one the Delete path deletes
NamesAligned == \A m \in Names : objs[m].exists => objs[m].spec.name = m

MarkedWithSentinel(n) ==
    /\ objs[n].exists
    /\ objs[n].meta.deletion_timestamp.some
    /\ objs[n].meta.finalizers = SomeSeq(<<FINALIZER>>)

RemovedWithWorkload(n) ==
    /\ ~objs[n].exists
    /\ \A d \in Names : ~(deployments[d].exists /\ deployments[d].owner[1] = n)

\* C7: once an object holding the sentinel finalizer is marked for deletion, then under
\* fair re-dispatch and calls that do not fail for ever, eventually its workload is
\* gone, its finalizer cleared and the object removed, whatever step an earlier
\* invocation was interrupted after.  Stated for the runs in which spec.name and
\* metadata name agree throughout, which the claim covers as well.
C7_DeletionConverges ==
    \A n \in Names : []NamesAligned => (MarkedWithSentinel(n) ~> RemovedWithWorkload(n))

BothCreateCallsOk(n) ==
    /\ pc[n] = "idle"
    /\ Len(calls[n]) = 2
    /\ calls[n][1] = Call("finalizer_add", n, TRUE)
    /\ calls[n][2].op = "create"
    /\ calls[n][2].ok

C8_Log ==
    \A n \in Names :
        BothCreateCallsOk(n) =>
            /\ objs[n].exists
            /\ objs[n].meta.finalizers = SomeSeq(<<FINALIZER>>)
            /\ Cardinality({i \in 1..Len(calls[n]) : calls[n][i].op = "create"}) = 1
            /\ result[n] = Ok(SomeInt(RequeueOk))

C8_Step ==
    \A n \in Names :
        /\ (/\ Dispatch(n)
            /\ Namespaced(cache[n])
            /\ ~cache[n].meta.finalizers.some
            /\ ~cache[n].meta.deletion_timestamp.some) => pc'[n] = "add"
        /\ (pc[n] = "deploy" /\ Returned(n, "create", TRUE)) =>
              LET fs == snap[n].spec
                  d == deployments'[fs.name] IN
              /\ ~deployments[fs.name].exists
              /\ d.exists
              /\ d.body.replicas = SomeInt(fs.replicas)
              /\ Len(d.body.containers) = Len(fs.containers)
              /\ \A i \in 1..Len(fs.containers) :
                    /\ d.body.containers[i].name = fs.containers[i].name
                    /\ d.body.containers[i].image = SomeStr(fs.containers[i].image)
              /\ \A other \in Names \ {fs.name} : deployments'[other] = deployments[other]

\* C8: for a namespaced object with no finalizers and no deletion marker, an invocation
\* whose two calls succeed leaves the finalizers equal to the singleton sentinel, has
\* issued exactly one workload create call, carrying the declared replica count and
\* containers, and returns requeue-after 10.
C8_CreatePath == []C8_Log /\ [][C8_Step]_vars

C8_Witness ==
    \E n \in Names :
        /\ BothCreateCallsOk(n)
        /\ deployments[objs[n].spec.name].exists
        /\ deployments[objs[n].spec.name].body.replicas = SomeInt(3)
        /\ result[n] = Ok(SomeInt(RequeueOk))

BothDeleteCallsOk(n) ==
    calls[n] = <<Call("delete", n, TRUE), Call("finalizer_delete", n, TRUE)>>

C9_Log ==
    \A n \in Names :
        /\ (\E i \in 1..Len(calls[n]) : calls[n][i] = Call("finalizer_delete", n, TRUE)) =>
              BothDeleteCallsOk(n)
        /\ BothDeleteCallsOk(n) => pc[n] = "idle" /\ result[n] = Ok(NoneInt)

C9_Step ==
    \A n \in Names :
        /\ (/\ Dispatch(n)
            /\ Namespaced(cache[n])
            /\ cache[n].meta.deletion_timestamp.some) => pc'[n] = "delete"
        /\ (pc[n] = "clear" /\ Returned(n, "finalizer_delete", TRUE)) =>
              /\ IsEmptyField(objs'[n].meta.finalizers)
              /\ result'[n] = Ok(NoneInt)
              /\ deployments' = deployments

\* C9: for a namespaced object with the deletion marker set, an invocation whose two
\* calls succeed issues the workload delete call first and the finalizer clear call
\* second, leaves the finalizers empty and returns no requeue interval.
C9_DeletePath == []C9_Log /\ [][C9_Step]_vars

C9_Witness ==
    \E n \in Names :
        /\ BothDeleteCallsOk(n)
        /\ result[n] = Ok(NoneInt)
        /\ ~objs[n].exists
        /\ ~deployments[n].exists

C10_Log ==
    \A n \in Names :
        action[n] = "NoOp" =>
            /\ calls[n] = <<>>
            /\ pc[n] = "idle"
            /\ result[n] = Ok(SomeInt(RequeueNoOp))

C10_Step ==
    \A n \in Names :
        (/\ Dispatch(n)
         /\ Namespaced(cache[n])
         /\ ~cache[n].meta.deletion_timestamp.some
         /\ ~IsEmptyField(cache[n].meta.finalizers)) =>
            /\ action'[n] = "NoOp"
            /\ calls'[n] = <<>>
            /\ pc'[n] = "idle"
            /\ result'[n] = Ok(SomeInt(RequeueNoOp))
            /\ objs' = objs
            /\ deployments' = deployments

\* C10: for a namespaced object holding a finalizer and no deletion marker, reconcile
\* issues no control-plane call, leaves the finalizers and every native object as they
\* were, and returns requeue-after 10.
C10_NoOpPath == []C10_Log /\ [][C10_Step]_vars

\* a provisioned object is reconciled again
C10_Witness ==
    \E n \in Names :
        /\ action[n] = "NoOp"
        /\ pc[n] = "idle"
        /\ calls[n] = <<>>
        /\ result[n] = Ok(SomeInt(RequeueNoOp))
        /\ objs[n].meta.finalizers = SomeSeq(<<FINALIZER>>)
        /\ deployments[objs[n].spec.name].exists

(***************************************************************************)
(* A cluster that holds FoxService objects without a namespace, of every   *)
(* finalizer content and with or without a deletion marker.                *)
(***************************************************************************)
UnnamespacedObjects ==
    {obj \in {FoxService(n, 1, NoneStr, finalizers, deletion_timestamp, DefaultSpec) :
                 n \in Names,
                 finalizers \in FinalizerFields,
                 deletion_timestamp \in {NoneInt, SomeInt(1)}} :
        Finalize(obj) = obj}

InitUnnamespaced ==
    /\ objs \in {store \in [Names -> UnnamespacedObjects \cup {Absent(n) : n \in Names}] :
                    \A n \in Names : store[n] = Absent(n) \/ store[n].meta.name = n}
    /\ created = [n \in Names |-> IF objs[n].exists THEN 1 ELSE 0]
    /\ deployments = [n \in Names |-> NoDeployment]
    /\ cache = [n \in Names |-> Absent(n)]
    /\ pc = [n \in Names |-> "idle"]
    /\ snap = [n \in Names |-> Absent(n)]
    /\ action = [n \in Names |-> "none"]
    /\ calls = [n \in Names |-> <<>>]
    /\ result = [n \in Names |-> NoResult]
    /\ input = NoInput
    /\ output = "none"

NextUnnamespaced ==
    \E n \in Names :
        \/ ExternalDelete(n)
        \/ Watch(n)
        \/ Dispatch(n)

SpecUnnamespaced == InitUnnamespaced /\ [][NextUnnamespaced]_vars

C11_Log ==
    \A n \in Names :
        result[n].kind = "UserInputError" =>
            /\ calls[n] = <<>>
            /\ pc[n] = "idle"
            /\ action[n] = "none"

C11_Step ==
    \A n \in Names :
        (/\ Dispatch(n)
         /\ ~cache[n].meta.namespace.some) =>
            /\ result'[n] = Err("UserInputError")
            /\ calls'[n] = <<>>
            /\ pc'[n] = "idle"
            /\ objs' = objs
            /\ deployments' = deployments

\* C11: reconcile of a snapshot that carries no namespace, whatever its finalizers and
\* deletion marker, returns UserInputError straight away: the invocation issues no
\* control-plane call, stops there, and leaves the objects and workloads as they were.
C11_NoNamespace == []C11_Log /\ [][C11_Step]_vars

\* an object without a namespace, marked for deletion and carrying finalizers, has
\* been reconciled from an up-to-date snapshot
C11_Witness ==
    \E n \in Names :
        /\ result[n] = Err("UserInputError")
        /\ calls[n] = <<>>
        /\ cache[n] = objs[n]
        /\ objs[n].exists
        /\ ~objs[n].meta.namespace.some
        /\ objs[n].meta.deletion_timestamp.some
        /\ objs[n].meta.finalizers = SomeSeq(<<FINALIZER, OtherToken>>)

(***************************************************************************)
(* The error handler under a reconciliation that keeps failing: the        *)
(* runtime calls on_error after every failed attempt and requeues as told. *)
(***************************************************************************)
MaxAttempts == 30

\* what the pure-function variable `output` holds before and after a call
NoOutput == [fn |-> "none"]
Returns(fn, value) == [fn |-> fn, value |-> value]

InitOnError ==
    /\ objs = [n \in Names |-> Absent(n)]
    /\ created = [n \in Names |-> 0]
    /\ deployments = [n \in Names |-> NoDeployment]
    /\ cache = [n \in Names |-> Absent(n)]
    /\ pc = [n \in Names |-> "idle"]
    /\ snap = [n \in Names |-> Absent(n)]
    /\ action = [n \in Names |-> "none"]
    /\ calls = [n \in Names |-> <<>>]
    /\ result = [n \in Names |-> NoResult]
    /\ input \in [error : Errors, attempts : {1}]
    /\ output = NoOutput

\* the runtime hands the error of the failed attempt to on_error
HandleError ==
    /\ output = NoOutput
    /\ output' = Returns("on_error", on_error(input.error))
    /\ UNCHANGED <<clusterVars, cache, pc, snap, action, calls, result, input>>

\* the requeued reconciliation runs and fails again
FailAgain ==
    /\ output # NoOutput
    /\ output.value.requeue_after.some
    /\ input.attempts < MaxAttempts
    /\ \E error \in Errors : input' = [error |-> error, attempts |-> input.attempts + 1]
    /\ output' = NoOutput
    /\ UNCHANGED <<clusterVars, cache, pc, snap, action, calls, result>>

NextOnError == HandleError \/ FailAgain

SpecOnError == InitOnError /\ [][NextOnError]_vars

\* C12: on_error answers every failed attempt with a requeue after 5 seconds, whatever
\* the kind of the error and however many attempts failed before: the interval never
\* grows and the handler never gives up.
C12_FixedRequeue ==
    output.fn = "on_error" => output.value = [requeue_after |-> SomeInt(5)]

\* the handler has answered a UserInputError that followed earlier failures
C12_Witness ==
    /\ output.fn = "on_error"
    /\ output.value.requeue_after = SomeInt(5)
    /\ input.error = "UserInputError"
    /\ input.attempts > 2

(***************************************************************************)
(* The finalizer manager on its own: add and delete applied, in any order  *)
(* and any number of times, to objects of every finalizer content.         *)
(***************************************************************************)
NamespacedObjects ==
    {obj \in {FoxService(n, 1, SomeStr(DefaultNamespace), finalizers,
                         deletion_timestamp, DefaultSpec) :
                 n \in Names,
                 finalizers \in FinalizerFields,
                 deletion_timestamp \in {NoneInt, SomeInt(1)}} :
        Finalize(obj) = obj}

InitFinalizer ==
    /\ objs \in {store \in [Names -> NamespacedObjects \cup {Absent(n) : n \in Names}] :
                    \A n \in Names : store[n] = Absent(n) \/ store[n].meta.name = n}
    /\ created = [n \in Names |-> IF objs[n].exists THEN 1 ELSE 0]
    /\ deployments = [n \in Names |-> NoDeployment]
    /\ cache = [n \in Names |-> Absent(n)]
    /\ pc = [n \in Names |-> "idle"]
    /\ snap = [n \in Names |-> Absent(n)]
    /\ action = [n \in Names |-> "none"]
    /\ calls = [n \in Names |-> <<>>]
    /\ result = [n \in Names |-> NoResult]
    /\ input = NoInput
    /\ output = NoOutput

\* what one call of the finalizer manager did: its target, the transport's part, the
\* object it found and whether it returned Ok
FinalizerCall(name, fault, before, ok) ==
    [name |-> name, fault |-> fault, before |-> before, ok |-> ok]

\* finalizer::add(client, name, DefaultNamespace)
FinalizerAdd(n, fault) ==
    /\ LET r == finalizer_add(objs, n, DefaultNamespace, fault) IN
       /\ objs' = r.store
       /\ output' = Returns("finalizer::add", FinalizerCall(n, fault, objs[n], r.ok))
    /\ UNCHANGED <<created, deployments, cache, pc, snap, action, calls, result, input>>

\* finalizer::delete(client, name, DefaultNamespace)
FinalizerDelete(n, fault) ==
    /\ LET r == finalizer_delete(objs, n, DefaultNamespace, fault) IN
       /\ objs' = r.store
       /\ output' = Returns("finalizer::delete", FinalizerCall(n, fault, objs[n], r.ok))
    /\ UNCHANGED <<created, deployments, cache, pc, snap, action, calls, result, input>>

NextFinalizer ==
    \E n \in Names, fault \in Faults :
        \/ FinalizerAdd(n, fault)
        \/ FinalizerDelete(n, fault)

SpecFinalizer == InitFinalizer /\ [][NextFinalizer]_vars

C14_DeleteLeavesNone ==
    (/\ output.fn = "finalizer::delete"
     /\ output.value.before.exists
     /\ output.value.fault = "ok") =>
        /\ output.value.ok
        /\ IsEmptyField(objs[output.value.name].meta.finalizers)

\* delete returned Ok on an object that carried another token next to the sentinel and
\* that stays in the cluster
C14_Witness ==
    /\ output.fn = "finalizer::delete"
    /\ output.value.ok
    /\ output.value.before.meta.finalizers = SomeSeq(<<FINALIZER, OtherToken>>)
    /\ objs[output.value.name].exists
    /\ objs[output.value.name].meta.finalizers = NoneSeq

(***************************************************************************)
(* The translator on its own: build_deployment and build_service applied   *)
(* to FoxServiceSpec values of bounded size.                               *)
(***************************************************************************)
MaxContainers == 2
MaxEntries == 2
MaxIngress == 2

Min(a, b) == IF a < b THEN a ELSE b

\* the first k elements of q
Prefix(q, k) == SubSeq(q, 1, Min(k, Len(q)))

\* Option<Vec<_>> / Option<Map<_, _>>: absent for k = -1, else the first k entries
OptPrefix(q, k) == IF k = -1 THEN NoneSeq ELSE SomeSeq(Prefix(q, k))

\* entries the inputs are cut from; a mapping is listed in its iteration order
ArgList == <<"-v", "--listen", "0.0.0.0", "--quiet">>
EnvEntries == <<<<"MODE", "prod">>, <<"LOG", "debug">>, <<"TZ", "UTC">>, <<"HOME", "/">>>>
PortEntries == <<<<80, 8080>>, <<443, 8443>>, <<8080, 80>>, <<22, 2222>>>>
IngressEntries == <<[port |-> 80], [port |-> 443], [port |-> 8080], [port |-> 65535]>>
ReplicaCounts == {-1, 0, 3}

\* how many args/env entries and how many ports entries a container has (-1: absent)
EntryShapes ==
    {sh \in (-1..MaxEntries) \X (-1..MaxEntries) : sh[1] = sh[2] \/ sh[1] = -1 \/ sh[2] = -1}

ContainerInputs ==
    {[name |-> ni[1], image |-> ni[2],
      args |-> OptPrefix(ArgList, sh[1]), env |-> OptPrefix(EnvEntries, sh[1]),
      ports |-> OptPrefix(PortEntries, sh[2])] :
        ni \in {<<"web", "echo:latest">>, <<"db", "pg:1">>}, sh \in EntryShapes}

TranslateInputs ==
    {[name |-> "a", replicas |-> r, containers |-> cs, http_ingress |-> NoneSeq] :
        r \in ReplicaCounts, cs \in SeqsUpTo(ContainerInputs, MaxContainers)}
    \cup {[name |-> "b", replicas |-> 3,
           containers |-> <<ContainerSpec("web", "echo:latest")>>,
           http_ingress |-> OptPrefix(IngressEntries, k)] : k \in -1..MaxIngress}

InitTranslate ==
    /\ objs = [n \in Names |-> Absent(n)]
    /\ created = [n \in Names |-> 0]
    /\ deployments = [n \in Names |-> NoDeployment]
    /\ cache = [n \in Names |-> Absent(n)]
    /\ pc = [n \in Names |-> "idle"]
    /\ snap = [n \in Names |-> Absent(n)]
    /\ action = [n \in Names |-> "none"]
    /\ calls = [n \in Names |-> <<>>]
    /\ result = [n \in Names |-> NoResult]
    /\ input \in TranslateInputs
    /\ output = NoOutput

BuildDeployment ==
    /\ output = NoOutput
    /\ output' = Returns("build_deployment", build_deployment(input, DefaultNamespace))
    /\ UNCHANGED <<clusterVars, cache, pc, snap, action, calls, result, input>>

BuildService ==
    /\ output = NoOutput
    /\ output' = Returns("build_service", build_service(input, DefaultNamespace))
    /\ UNCHANGED <<clusterVars, cache, pc, snap, action, calls, result, input>>

NextTranslate == BuildDeployment \/ BuildService

SpecTranslate == InitTranslate /\ [][NextTranslate]_vars

\* the env list `out` holds one (name, Some(value)) entry per entry of the mapping `env`
EnvCopied(env, out) ==
    /\ out.some = env.some
    /\ Len(out.v) = Len(env.v)
    /\ \A j \in 1..Len(env.v) :
          /\ out.v[j].name = env.v[j][1]
          /\ out.v[j].value = SomeStr(env.v[j][2])

\* the ports list `out` holds one pair per entry of the mapping `ports`: the host port
\* from the key, the container port from the value
PortsCopied(ports, out) ==
    /\ out.some = ports.some
    /\ Len(out.v) = Len(ports.v)
    /\ \A j \in 1..Len(ports.v) :
          /\ out.v[j].host_port = SomeInt(ports.v[j][1])
          /\ out.v[j].container_port = ports.v[j][2]

\* C15: build_deployment copies the replica count as it is (zero and negative counts
\* included) and yields one container descriptor per container spec, in input order,
\* with the same name, image and args, one env entry per input env entry and one port
\* pair per input port entry (host port from the key, container port from the value).
C15_DeploymentFaithful ==
    output.fn = "build_deployment" =>
        /\ output.value.replicas = SomeInt(input.replicas)
        /\ Len(output.value.containers) = Len(input.containers)
        /\ \A i \in 1..Len(input.containers) :
              /\ output.value.containers[i].name = input.containers[i].name
              /\ output.value.containers[i].image = SomeStr(input.containers[i].image)
              /\ output.value.containers[i].args = input.containers[i].args
              /\ EnvCopied(input.containers[i].env, output.value.containers[i].env)
              /\ PortsCopied(input.containers[i].ports, output.value.containers[i].ports)

\* a spec with a negative replica count and two containers, the second with two env
\* entries and two port entries, has been translated
C15_Witness ==
    /\ output.fn = "build_deployment"
    /\ input.replicas = -1
    /\ Len(input.containers) = 2
    /\ Len(output.value.containers) = 2
    /\ Len(input.containers[2].env.v) = 2
    /\ Len(input.containers[2].ports.v) = 2
    /\ output.value.containers[2].ports.v[2].host_port = SomeInt(443)
    /\ input.containers[1].name # input.containers[2].name

\* C16: build_service yields no ports when http_ingress is absent, and otherwise one
\* port entry per ingress entry, in order, each with target port equal to its port.
C16_ServicePorts ==
    output.fn = "build_service" =>
        IF ~input.http_ingress.some
        THEN ~output.value.ports.some /\ output.value.ports.v = <<>>
        ELSE /\ output.value.ports.some
             /\ Len(output.value.ports.v) = Len(input.http_ingress.v)
             /\ \A i \in 1..Len(input.http_ingress.v) :
                   /\ output.value.ports.v[i].port = input.http_ingress.v[i].port
                   /\ output.value.ports.v[i].target_port =
                          SomeInt(input.http_ingress.v[i].port)

\* a spec with two ingress entries has been translated
C16_Witness ==
    /\ output.fn = "build_service"
    /\ input.http_ingress.some
    /\ Len(input.http_ingress.v) = 2
    /\ Len(output.value.ports.v) = 2
    /\ output.value.ports.v[2].target_port = SomeInt(443)

\* the controller's sentinel is attached to the object stored under n, which is not
\* marked for deletion, and no Deployment was created on its behalf
Orphaned(n) ==
    /\ Namespaced(objs[n])
    /\ objs[n].meta.finalizers = SomeSeq(<<FINALIZER>>)
    /\ ~objs[n].meta.deletion_timestamp.some
    /\ \A d \in Names :
          ~(deployments[d].exists /\ deployments[d].owner = <<n, objs[n].meta.uid>>)

\* no invocation for n is in flight and the cache holds no outdated copy of the object
Quiet(n) == pc[n] = "idle" /\ cache[n] \in {objs[n], Absent(n)}

C17_Step ==
    \A n \in Names :
        (Orphaned(n) /\ Quiet(n)) =>
            \/ objs'[n].meta.deletion_timestamp.some
            \/ /\ Orphaned(n)'
               /\ Quiet(n)'
               /\ Dispatch(n) => (action'[n] = "NoOp" /\ calls'[n] = <<>>)
               /\ calls'[n] \in {calls[n], <<>>}

\* C17: once the finalizer is attached and the workload create call has not succeeded,
\* every reconciliation of an up-to-date snapshot of the object, as long as it is not
\* marked for deletion, is a NoOp: it issues no call, so no create call is issued
\* again and the object stays with its finalizer and without a workload.
C17_ConvergenceGap == [][C17_Step]_vars

\* the only object ever declared got its finalizer, never its workload, and has since
\* been reconciled from an up-to-date snapshot as a NoOp
C17_Witness ==
    \E n \in Names :
        /\ Orphaned(n)
        /\ cache[n] = objs[n]
        /\ pc[n] = "idle"
        /\ action[n] = "NoOp"
        /\ result[n] = NoOpResult
        /\ created[n] = 1
        /\ \A m \in Names \ {n} : created[m] = 0

\* C18: the workload delete call of the Delete path targets the name under which the
\* Create path created the workload of the same resource: every create call of an
\* invocation for n targets n, the name every delete call for n targets, and once the
\* Delete path has run to its end no Deployment created for n is left.
C18_DeleteTargetsCreated ==
    \A n \in Names :
        /\ \A i \in 1..Len(calls[n]) :
              calls[n][i].op \in {"create", "delete"} => calls[n][i].target = n
        /\ (action[n] = "Delete" /\ BothDeleteCallsOk(n)) =>
              \A d \in Names : ~(deployments[d].exists /\ deployments[d].owner[1] = n)

C19_Step ==
    \A n \in Names :
        (/\ pc[n] = "deploy"
         /\ calls'[n] # calls[n]
         /\ deployments[snap[n].spec.name].exists) =>
            /\ Returned(n, "create", FALSE)
            /\ pc'[n] = "idle"
            /\ result'[n] = Err("KubeError")
            /\ deployments' = deployments

\* C19: when the Create path issues its create call while a Deployment of the target
\* name already exists, the call fails, reconcile returns an error, and the existing
\* Deployment (and every other one) stays as it was: nothing is added or overwritten.
C19_CreateOnExisting == [][C19_Step]_vars

\* a Create-path invocation has returned an error from its create call, and the
\* Deployment of the target name, created before for the other resource and since
\* seen in place by that resource's NoOp reconciliation, is still the other resource's
C19_Witness ==
    \E n \in Names : \E m \in Names \ {n} :
        /\ calls[n] = <<Call("finalizer_add", n, TRUE),
                        Call("create", objs[n].spec.name, FALSE)>>
        /\ result[n] = Err("KubeError")
        /\ objs[n].exists
        /\ objs[m].exists
        /\ objs[m].spec.name = objs[n].spec.name
        /\ action[m] = "NoOp"
        /\ deployments[objs[n].spec.name].exists
        /\ deployments[objs[n].spec.name].owner = <<m, objs[m].meta.uid>>

\* the step is a control-plane call of the invocation for n
CallStep(n) == calls'[n] # calls[n] /\ calls'[n] # <<>>

C20_Step ==
    \A n \in Names :
        CallStep(n) =>
            /\ \A m \in Names \ {n} : objs'[m] = objs[m]
            /\ \A d \in Names :
                  (deployments[d].exists /\ deployments[d].owner[1] # n) =>
                      deployments'[d] = deployments[d]

\* C20: reconciliations of distinct resources do not interfere, however their calls
\* interleave: a call of the invocation for one resource changes neither another
\* resource's object (its finalizers) nor a Deployment created for another resource.
C20_NoInterference == [][C20_Step]_vars

\* C21: every container descriptor build_deployment produces has its image pull
\* policy set to the literal "Always", for every input container spec.
C21_PullPolicyAlways ==
    output.fn = "build_deployment" =>
        \A i \in 1..Len(output.value.containers) :
            output.value.containers[i].image_pull_policy = SomeStr("Always")

====
